---- MODULE Spec2Model ----
(***************************************************************************)
(* Form.vue of the UI library: the validation orchestrator (validate,     *)
(* getErrors), the submit handler (onSubmit), the event-bus listener and   *)
(* the exposed API (setErrors, getErrors, clear), as a state machine.      *)
(*                                                                         *)
(* Every call of an async function of the component is a suspended call:   *)
(* validate waits in `await getErrors()`, onSubmit in `await validate()`.  *)
(* The steps of different calls interleave at these awaits, as they do on  *)
(* the JavaScript event loop; the code between two awaits runs as one      *)
(* atomic step.                                                            *)
(*                                                                         *)
(* Spec is the component with its calls interleaving.  SpecPass follows    *)
(* one call of validate through the awaits of getErrors (props.validate,   *)
(* then the schema library), for every shape of props.schema.  SpecSeq is   *)
(* the component with one call at a time, the empty-string path and the    *)
(* registered inputs.  SpecInputs is an input component (Checkbox, Radio,  *)
(* RadioGroup, Textarea) inside or outside a Form.                         *)
(***************************************************************************)
EXTENDS Integers, Sequences, FiniteSets, Bags, TLC

\* Number of asynchronous calls (validate, bus listener, onSubmit) that may be
\* suspended at the same time.
MaxInFlight == 2

---------------------------------------------------------------------------
\* Values

\* `undefined`: an omitted path argument / an absent issue path.
undefined == "<undefined>"

FormEventTypes == {"blur", "input", "change", "submit"}

\* default of props.validateOn
DefaultValidateOn == {"blur", "input", "change", "submit"}

\* Field paths a FormError can carry in this model.
FieldPaths == {"email", "age"}

FormError(p, m) == [path |-> p, message |-> m]

\* Bug variant of Truthy: the test is `path !== undefined`.
TruthyDefinedOnly(path) == path # undefined

\* In JavaScript `if (path)` is false for undefined and for ''.
Truthy(path) == path # undefined /\ path # ""

\* errors.filter((error) => error.path === path)
FilterPathEq(errs, path) == SelectSeq(errs, LAMBDA e : e.path = path)

\* errors.filter((error) => error.path !== path)
FilterPathNe(errs, path) == SelectSeq(errs, LAMBDA e : e.path # path)

---------------------------------------------------------------------------
\* Schema adapter: detection (duck typing on marker fields) and normalizers

\* The marker fields the detectors look at.
SchemaFields == {"parse", "validate", "__isYupSchema__", "validateAsync", "id", "_parse"}

\* props.schema: absent (default undefined) or an object.  `fields` are the
\* marker fields whose value is not undefined, `falsy` those among them whose
\* value is falsy (false, 0, '', null).
NoSchema == [present |-> FALSE, fields |-> {}, falsy |-> {}]
SchemaObjectWith(fs, fl) == [present |-> TRUE, fields |-> fs, falsy |-> fl]
SchemaObject(fs) == SchemaObjectWith(fs, {})

\* schema.f !== undefined
Defined(schema, f) == f \in schema.fields

\* schema.f used as a condition
TruthyField(schema, f) == f \in schema.fields \ schema.falsy

\* return schema.parse !== undefined
isZodSchema(schema) == Defined(schema, "parse")

\* return schema.validate && schema.__isYupSchema__
isYupSchema(schema) == TruthyField(schema, "validate") /\ TruthyField(schema, "__isYupSchema__")

\* return schema.validateAsync !== undefined && schema.id !== undefined
isJoiSchema(schema) == Defined(schema, "validateAsync") /\ Defined(schema, "id")

\* return schema._parse !== undefined
isValibotSchema(schema) == Defined(schema, "_parse")

\* Bug variant of SchemaKind: the yup test comes before the zod test.
SchemaKindYupFirst(schema) ==
  IF isYupSchema(schema) THEN "yup"
  ELSE IF isZodSchema(schema) THEN "zod"
  ELSE IF isJoiSchema(schema) THEN "joi"
  ELSE IF isValibotSchema(schema) THEN "valibot"
  ELSE "unsupported"

\* The if / else-if chain of getErrors.
SchemaKind(schema) ==
  IF isZodSchema(schema) THEN "zod"
  ELSE IF isYupSchema(schema) THEN "yup"
  ELSE IF isJoiSchema(schema) THEN "joi"
  ELSE IF isValibotSchema(schema) THEN "valibot"
  ELSE "unsupported"

\* A native issue of a schema library: path segments (absent for libraries
\* that allow it) and a message.
NativeIssue(hasPath, segs, m) == [hasPath |-> hasPath, segs |-> segs, message |-> m]

\* Array.prototype.join('.')
RECURSIVE Join(_)
Join(segs) ==
  IF segs = <<>> THEN ""
  ELSE IF Len(segs) = 1 THEN segs[1]
  ELSE segs[1] \o "." \o Join(Tail(segs))

\* Bug variant of getJoiErrors: only the first path segment is kept.
getJoiErrorsFirstSegment(issues) ==
  [i \in 1..Len(issues) |->
     FormError(IF issues[i].segs = <<>> THEN "" ELSE issues[i].segs[1], issues[i].message)]

\* issue.path.join('.')
getZodErrors(issues) ==
  [i \in 1..Len(issues) |-> FormError(Join(issues[i].segs), issues[i].message)]

\* issue.path ?? ''  (yup hands the path over as a dotted string)
getYupErrors(issues) ==
  [i \in 1..Len(issues) |->
     FormError(IF issues[i].hasPath THEN Join(issues[i].segs) ELSE "", issues[i].message)]

\* detail.path.join('.')
getJoiErrors(issues) ==
  [i \in 1..Len(issues) |-> FormError(Join(issues[i].segs), issues[i].message)]

\* issue.path?.map(p => p.key).join('.') || ''
getValibotError(issues) ==
  [i \in 1..Len(issues) |->
     FormError(IF issues[i].hasPath /\ Join(issues[i].segs) # "" THEN Join(issues[i].segs) ELSE "",
               issues[i].message)]

\* The normalizer getErrors dispatches to for a detected kind.
Normalize(kind, issues) ==
  CASE kind = "zod" -> getZodErrors(issues)
    [] kind = "yup" -> getYupErrors(issues)
    [] kind = "joi" -> getJoiErrors(issues)
    [] kind = "valibot" -> getValibotError(issues)

\* The name of that normalizer.
NormalizerOf(kind) ==
  CASE kind = "zod" -> "getZodErrors"
    [] kind = "yup" -> "getYupErrors"
    [] kind = "joi" -> "getJoiErrors"
    [] kind = "valibot" -> "getValibotError"

\* One run of the schema library's entry point on the state: it accepts the
\* state, it rejects it with issues in the library's own failure shape (a
\* result for zod and valibot, a recognised exception for yup and joi), or it
\* throws an exception that is not of that shape.
Accepts == [outcome |-> "accepts", issues |-> <<>>]
Rejects(issues) == [outcome |-> "rejects", issues |-> issues]
Throws == [outcome |-> "throws", issues |-> <<>>]

\* Bug variant of SchemaErrors: an exception of no recognised shape is
\* absorbed into an empty result.
SchemaErrorsAbsorbs(kind, run) ==
  [out |-> "resolved",
   errs |-> IF run.outcome = "rejects" THEN Normalize(kind, run.issues) ELSE <<>>]

\* How the normalizer of a kind settles for a run: [] when the state is
\* accepted, the mapped issues when it is rejected, and the exception itself
\* (not caught by zod's and valibot's normalizers, rethrown by yup's and
\* joi's) otherwise.
SchemaErrors(kind, run) ==
  CASE run.outcome = "accepts" -> [out |-> "resolved", errs |-> <<>>]
    [] run.outcome = "rejects" -> [out |-> "resolved", errs |-> Normalize(kind, run.issues)]
    [] run.outcome = "throws" -> [out |-> "NativeError", errs |-> <<>>]

---------------------------------------------------------------------------
\* Inputs of the model

\* What the consumer's imperative validator (props.validate) may return:
\* the default [] or an error of its own.
ValidatorResults == { <<>>, <<FormError("age", "must be positive")>> }

\* The issues a run of the schema library may report.
NativeIssueLists == { <<>>, <<NativeIssue(TRUE, <<"email">>, "required")>> }

\* Error lists a consumer passes to setErrors.
SetErrorsArgs ==
  { <<>>, <<FormError("email", "taken"), FormError("age", "must be positive")>> }

\* Path arguments of validate, setErrors, clear and of bus events.
CallPaths == {undefined, "email"}

\* The forms under test: props.schema, props.validateOn, props.state.
Forms ==
  { [schema |-> SchemaObject({"parse"}), validateOn |-> DefaultValidateOn, state |-> "state1"],
    [schema |-> NoSchema,                validateOn |-> {"blur"},          state |-> "state2"],
    [schema |-> SchemaObject({}),        validateOn |-> {"submit"},        state |-> "state1"] }

---------------------------------------------------------------------------
\* State

VARIABLES
  schema,      \* props.schema
  validateOn,  \* props.validateOn
  state,       \* props.state
  errors,      \* errors.value: the ErrorCollection
  inputs,      \* inputs.value: path -> id of the registered input
  pending,     \* the suspended async calls (validate / bus listener / onSubmit)
  last,        \* history: the step taken last
  recent,      \* history: per path, the result of the latest pass covering it
  inForm,         \* whether the input component is a descendant of a Form
  formProps,      \* the Form's props (disabled) as its parent passes them now
  formDisabled,   \* formDisabled.value of the input: the ref injected as 'form-disabled'
  component,      \* the input component mounted
  inputProps,     \* the input component's props (disabled)
  modelModifiers  \* modelModifiers.value of the Textarea

\* The state of the input component and of what the Form provides to it.
uiVars == <<inForm, formProps, formDisabled, component, inputProps, modelModifiers>>

vars == <<schema, validateOn, state, errors, inputs, pending, last, recent, uiVars>>

\* The Form on its own: no input component is mounted in it.
NoInput ==
  /\ inForm = TRUE
  /\ formProps = [disabled |-> FALSE]
  /\ formDisabled = FALSE
  /\ component = "none"
  /\ inputProps = [disabled |-> FALSE]
  /\ modelModifiers = [lazy |-> FALSE]

\* The record of a step: the operation, the kind of call it belongs to, its
\* path and silent arguments, the type of the bus event or of the signal
\* emitted, how validate settled in it (out, ret), the signals it emitted,
\* the collection before it (pre) and the error list it was given or returned
\* (res: what getErrors() resolved with, the argument of setErrors, the list
\* the exposed getErrors returned, or the collection the pass of a submit
\* assigned).
Step(op, kind, path, silent, type, out, ret, emits, res) ==
  [op |-> op, kind |-> kind, path |-> path, silent |-> silent, type |-> type,
   out |-> out, ret |-> ret, emits |-> emits, pre |-> errors, res |-> res]

NoStep ==
  [op |-> "init", kind |-> "none", path |-> undefined, silent |-> FALSE, type |-> "none",
   out |-> "pending", ret |-> undefined, emits |-> <<>>, pre |-> <<>>, res |-> <<>>]

Unknown == [known |-> FALSE, errs |-> <<>>]

Init ==
  /\ \E f \in Forms :
       /\ schema = f.schema
       /\ validateOn = f.validateOn
       /\ state = f.state
  /\ errors = <<>>
  /\ inputs = [p \in FieldPaths \cup {""} |-> undefined]
  /\ pending = EmptyBag
  /\ last = NoStep
  /\ recent = [p \in FieldPaths |-> Unknown]
  /\ NoInput

\* A suspended call: where it waits (pc), whether onSubmit or another caller
\* awaits validate (kind), validate's arguments, its otherErrors, and, for
\* onSubmit, the collection its pass assigned (errs) and how validate
\* settled (out).
Call(pc, kind, path, silent, other, errs, out) ==
  [pc |-> pc, kind |-> kind, path |-> path, silent |-> silent,
   other |-> other, errs |-> errs, out |-> out]

Calls == BagToSet(pending)
Spawn(c) == pending (+) SetToBag({c})
Replace(c, d) == (pending (-) SetToBag({c})) (+) SetToBag({d})
Finish(c) == pending (-) SetToBag({c})
CanSpawn == BagCardinality(pending) < MaxInFlight

---------------------------------------------------------------------------
\* validate (and getErrors, which it awaits)

\* Bug variant of OtherErrors: the filter is inverted (as in clear), the
\* entries of the revalidated path are the ones kept.
OtherErrorsInverted(cur, path) == FilterPathEq(cur, path)

\* Bug variant of OtherErrors: the entries of the revalidated path are kept.
OtherErrorsKeepsPath(cur, path) == cur

\* const otherErrors = errors.value.filter((error) => error.path !== path)
OtherErrors(cur, path) == FilterPathNe(cur, path)

\* The synchronous part of validate(path, opts): with a path, the entries of
\* the other paths are read now, before the await; then validate is suspended
\* in `await getErrors()`.  getErrors itself awaits props.validate and then
\* the schema library; it reads and writes nothing of the form in between, so
\* its suspensions are one suspension of the call.
ValidateEntry(kind, path, silent) ==
  Call("getErrors", kind, path, silent,
       IF Truthy(path) THEN OtherErrors(errors, path) ELSE <<>>, <<>>, "pending")

\* The pending calls once validate() of call c has settled with `out`:
\* onSubmit resumes after its await, every other caller is finished.
Settled(c, errs, out) ==
  IF c.kind = "submit"
  THEN Replace(c, Call("emit", "submit", undefined, FALSE, <<>>, errs, out))
  ELSE Finish(c)

\* The exposed validate(path, opts).
validate(path, silent) ==
  /\ CanSpawn
  /\ pending' = Spawn(ValidateEntry("validate", path, silent))
  /\ last' = Step("validate", "validate", path, silent, "none", "pending", undefined,
                  <<>>, <<>>)
  /\ UNCHANGED <<uiVars, schema, validateOn, state, errors, inputs, recent>>

\* How getErrors() can reject for the form's schema: the throw of its last
\* else branch for an unsupported schema, or a native exception of the
\* library that get...Errors does not translate.
Rejections ==
  IF ~schema.present THEN {}
  ELSE IF SchemaKind(schema) = "unsupported" THEN {"UnsupportedSchema"}
  ELSE {"NativeError"}

\* getErrors() rejects, after props.validate has been awaited; validate
\* propagates the exception without touching errors.value.
getErrorsRejects(c, why) ==
  /\ c.pc = "getErrors"
  /\ why \in Rejections
  /\ pending' = Settled(c, <<>>, why)
  /\ last' = Step("reject", c.kind, c.path, c.silent, "none", why, undefined, <<>>, <<>>)
  /\ UNCHANGED <<uiVars, schema, validateOn, state, errors, inputs, recent>>

\* Bug variant of Concat: the schema's errors come first.
ConcatSchemaFirst(errs, more) == more \o errs

\* errs.concat(more)
Concat(errs, more) == errs \o more

\* What getErrors() resolves with: the validator's errors r, followed by the
\* normalized issues of the schema when there is one.
GetErrorsResult(r, issues) ==
  IF schema.present THEN Concat(r, Normalize(SchemaKind(schema), issues)) ELSE r

\* Bug variant of ValidateResult: the path filter is applied without a path too.
ValidateResultAlwaysFilters(path, other, errs) == other \o FilterPathEq(errs, path)

\* The collection validate assigns once getErrors() has resolved with errs.
ValidateResult(path, other, errs) ==
  IF Truthy(path) THEN other \o FilterPathEq(errs, path) ELSE errs

\* Bug variant of ValidateReturns: validate resolves with nothing.
ValidateReturnsNothing(out, st) == undefined

\* return props.state
ValidateReturns(out, st) == IF out = "resolved" THEN st ELSE undefined

\* Bug variant of ShouldThrow: opts.silent is not consulted.
ShouldThrowIgnoresSilent(silent, cur) == Len(cur) > 0

\* Bug variant of ShouldThrow: the throw is missing.
ShouldThrowNever(silent, cur) == FALSE

\* Bug variant of ShouldThrow: a single error does not raise.
ShouldThrowOffByOne(silent, cur) == ~silent /\ Len(cur) > 1

\* if (!opts.silent && errors.value.length > 0) throw new FormException(...)
ShouldThrow(silent, cur) == ~silent /\ Len(cur) > 0

\* getErrors() resolves (props.validate with r, the schema library with
\* issues) and validate resumes after its await: it assigns errors.value and
\* throws FormException or returns props.state.
validateWrite(c, r, issues) ==
  LET errs == GetErrorsResult(r, issues)
      new  == ValidateResult(c.path, c.other, errs)
      out  == IF ShouldThrow(c.silent, new) THEN "FormException" ELSE "resolved"
  IN
  /\ c.pc = "getErrors"
  /\ ~schema.present \/ SchemaKind(schema) # "unsupported"
  /\ errors' = new
  /\ pending' = Settled(c, new, out)
  /\ recent' = [p \in FieldPaths |->
                  IF Truthy(c.path) /\ p # c.path THEN recent[p]
                  ELSE [known |-> TRUE, errs |-> FilterPathEq(errs, p)]]
  /\ last' = Step("write", c.kind, c.path, c.silent, "none", out,
                  ValidateReturns(out, state), <<>>, errs)
  /\ UNCHANGED <<uiVars, schema, validateOn, state, inputs>>

---------------------------------------------------------------------------
\* The event-bus listener

\* Bug variant of ListenerValidates: an event that arrives while a validation
\* is in flight is dropped.
ListenerValidatesWhenIdle(type, on) == type # "submit" /\ type \in on /\ pending = EmptyBag

\* Bug variant of ListenerValidates: props.validateOn is not consulted.
ListenerValidatesAlways(type, on) == type # "submit"

\* if (event.type !== 'submit' && props.validateOn?.includes(event.type))
ListenerValidates(type, on) == type # "submit" /\ type \in on

\* An input component publishes {type, path} on the form's bus; the listener
\* runs at once and, for a triggering type, calls validate(path, {silent: true}).
busEmit(type, path) ==
  /\ IF ListenerValidates(type, validateOn)
     THEN /\ CanSpawn
          /\ pending' = Spawn(ValidateEntry("validate", path, TRUE))
     ELSE pending' = pending
  /\ last' = Step(IF ListenerValidates(type, validateOn) THEN "event" ELSE "ignored",
                  "validate", path, TRUE, type, "pending", undefined, <<>>, <<>>)
  /\ UNCHANGED <<uiVars, schema, validateOn, state, errors, inputs, recent>>

---------------------------------------------------------------------------
\* onSubmit

\* Bug variant of SubmitValidates: every submit validates.
SubmitValidatesAlways(on) == TRUE

\* if (props.validateOn?.includes('submit'))
SubmitValidates(on) == "submit" \in on

\* { ...event, data: props.state }
SubmitSignal == [type |-> "submit", data |-> state, errors |-> <<>>]

\* Bug variant of ErrorSignal: only the first error is carried.
ErrorSignalFirstOnly ==
  [type |-> "error", data |-> undefined,
   errors |-> [i \in 1..(IF errors = <<>> THEN 0 ELSE 1) |->
                 [path |-> errors[i].path, message |-> errors[i].message,
                  id |-> inputs[errors[i].path]]]]

\* Bug variant of ErrorSignal: the identifiers of the inputs are not attached.
ErrorSignalWithoutIds ==
  [type |-> "error", data |-> undefined,
   errors |-> [i \in 1..Len(errors) |->
                 [path |-> errors[i].path, message |-> errors[i].message,
                  id |-> undefined]]]

\* { ...event, errors: errors.value.map((err) => ({ ...err, id: inputs.value[err.path] })) }
ErrorSignal ==
  [type |-> "error", data |-> undefined,
   errors |-> [i \in 1..Len(errors) |->
                 [path |-> errors[i].path, message |-> errors[i].message,
                  id |-> inputs[errors[i].path]]]]

\* The form's submit event: with 'submit' among the triggers the handler
\* suspends on validate(); otherwise it emits 'submit' right away.
onSubmit ==
  /\ IF SubmitValidates(validateOn)
     THEN /\ CanSpawn
          /\ pending' = Spawn(ValidateEntry("submit", undefined, FALSE))
          /\ last' = Step("submit", "submit", undefined, FALSE, "none", "pending",
                          undefined, <<>>, <<>>)
     ELSE /\ pending' = pending
          /\ last' = Step("submit", "submit", undefined, FALSE, "submit", "pending",
                          undefined, <<SubmitSignal>>, <<>>)
  /\ UNCHANGED <<uiVars, schema, validateOn, state, errors, inputs, recent>>

\* Bug variant of SubmitOutcome: the catch block does not test for
\* FormException and routes every failure to 'error'.
SubmitOutcomeCatchesAll(out) ==
  CASE out = "resolved" -> "submit"
    [] OTHER -> "error"

\* Bug variant of SubmitOutcome: there is no catch block, the FormException
\* escapes the handler.
SubmitOutcomeLeaks(out) ==
  CASE out = "resolved" -> "submit"
    [] OTHER -> "rethrow"

\* Bug variant of SubmitOutcome: the catch block swallows the FormException
\* and the handler goes on to emit 'submit'.
SubmitOutcomeSwallows(out) ==
  CASE out = "resolved" -> "submit"
    [] out = "FormException" -> "submit"
    [] OTHER -> "rethrow"

\* What onSubmit does once its validate() has settled with `out`: the try
\* block goes on to emit 'submit', the catch block emits 'error' for a
\* FormException and rethrows anything else.
SubmitOutcome(out) ==
  CASE out = "resolved" -> "submit"
    [] out = "FormException" -> "error"
    [] OTHER -> "rethrow"

\* onSubmit resumes after `await validate()`.
submitEmit(c) ==
  LET what == SubmitOutcome(c.out) IN
  /\ c.pc = "emit"
  /\ pending' = Finish(c)
  /\ last' = Step("emit", "submit", undefined, FALSE, what, c.out, undefined,
                  (CASE what = "submit" -> <<SubmitSignal>>
                     [] what = "error" -> <<ErrorSignal>>
                     [] OTHER -> <<>>),
                  c.errs)
  /\ UNCHANGED <<uiVars, schema, validateOn, state, errors, inputs, recent>>

---------------------------------------------------------------------------
\* The exposed setErrors and clear

\* Bug variant of SetErrorsResult: the new errors are appended to the
\* collection instead of replacing it.
SetErrorsResultAppends(cur, errs, path) == cur \o errs

\* errors.value = errs; then, with a path, errors.value.filter(path !==).concat(errs)
SetErrorsResult(cur, errs, path) ==
  LET assigned == errs IN
  IF Truthy(path) THEN FilterPathNe(assigned, path) \o errs ELSE errs

setErrors(errs, path) ==
  /\ errors' = SetErrorsResult(errors, errs, path)
  /\ recent' = [p \in FieldPaths |-> Unknown]
  /\ last' = Step("setErrors", "none", path, FALSE, "none", "pending", undefined, <<>>, errs)
  /\ UNCHANGED <<uiVars, schema, validateOn, state, inputs, pending>>

\* The exposed getErrors(path): with a path the entries of that path, else
\* the whole collection.
GetErrorsReturns(cur, path) ==
  IF Truthy(path) THEN FilterPathEq(cur, path) ELSE cur

\* A read: nothing of the form changes; the step records the list returned.
getErrors(path) ==
  /\ last' = Step("getErrors", "none", path, FALSE, "none", "pending", undefined, <<>>,
                  GetErrorsReturns(errors, path))
  /\ UNCHANGED <<uiVars, schema, validateOn, state, errors, inputs, pending, recent>>

\* with a path errors.value.filter((err) => err.path === path), else []
ClearResult(cur, path) ==
  IF Truthy(path) THEN FilterPathEq(cur, path) ELSE <<>>

clear(path) ==
  /\ errors' = ClearResult(errors, path)
  /\ recent' = [p \in FieldPaths |-> Unknown]
  /\ last' = Step("clear", "none", path, FALSE, "none", "pending", undefined, <<>>, <<>>)
  /\ UNCHANGED <<uiVars, schema, validateOn, state, inputs, pending>>

---------------------------------------------------------------------------
\* Specification

Next ==
  \/ \E path \in CallPaths, silent \in BOOLEAN : validate(path, silent)
  \/ \E c \in Calls, why \in {"UnsupportedSchema", "NativeError"} : getErrorsRejects(c, why)
  \/ \E c \in Calls, r \in ValidatorResults, issues \in NativeIssueLists :
       validateWrite(c, r, issues)
  \/ \E type \in FormEventTypes, path \in CallPaths : busEmit(type, path)
  \/ onSubmit
  \/ \E c \in Calls : submitEmit(c)
  \/ \E errs \in SetErrorsArgs, path \in CallPaths : setErrors(errs, path)
  \/ \E path \in CallPaths : getErrors(path)
  \/ \E path \in CallPaths : clear(path)

Spec == Init /\ [][Next]_vars

---------------------------------------------------------------------------
\* One validation pass, step by step
\*
\* The second specification follows a single call of validate through every
\* await of getErrors, for every shape of schema object and every outcome of
\* the schema library.

\* Every props.schema: none, or an object with any of the marker fields
\* defined, any of them with a falsy value.
AllSchemas ==
  {NoSchema} \cup
  UNION { { SchemaObjectWith(fs, fl) : fl \in SUBSET fs } : fs \in SUBSET SchemaFields }

\* Native issues: a field, a nested field, a root-level issue (no path
\* segments) and an issue without a path (yup and valibot allow it).
IssueEmail == NativeIssue(TRUE, <<"email">>, "required")
IssueCity == NativeIssue(TRUE, <<"address", "city">>, "too short")
IssueRoot == NativeIssue(TRUE, <<>>, "invalid")
IssueNoPath == NativeIssue(FALSE, <<>>, "invalid")

\* The issue lists a library of the kind may reject with.
IssueLists(kind) ==
  { <<IssueEmail>>, <<IssueCity, IssueRoot>> } \cup
  (IF kind \in {"yup", "valibot"} THEN { <<IssueNoPath, IssueEmail>> } ELSE {})

\* The runs of the library of a kind.
LibraryRuns(kind) == {Accepts, Throws} \cup { Rejects(is) : is \in IssueLists(kind) }

NoRun == [outcome |-> "none", issues |-> <<>>]

\* Bug variant of HasSchema: the schema branch is entered without a schema.
HasSchemaAlways(sch) == TRUE

\* if (props.schema)
HasSchema(sch) == sch.present

\* The call of validate in flight: where it waits (pc: in `await
\* props.validate(...)` or in the await of the normalizer), its arguments, its
\* otherErrors, the validator's result (errs) and the functions getErrors
\* has called so far.
PassCall(pc, path, silent, other, errs, called) ==
  [pc |-> pc, path |-> path, silent |-> silent, other |-> other, errs |-> errs,
   called |-> called]

\* The record of a step of the pass: as Step, with the functions called, the
\* validator's result r, the library's run and the normalizer's result norm.
PassStep(op, c, called, r, run, norm, out, ret, res) ==
  [op |-> op, path |-> c.path, silent |-> c.silent, called |-> called, r |-> r,
   run |-> run, norm |-> norm, out |-> out, ret |-> ret, pre |-> errors, res |-> res]

InitPass ==
  /\ schema \in AllSchemas
  /\ validateOn = DefaultValidateOn
  /\ state = "state1"
  /\ errors = <<>>
  /\ inputs = [p \in FieldPaths \cup {""} |-> undefined]
  /\ pending = EmptyBag
  /\ last = NoStep
  /\ recent = [p \in FieldPaths |-> Unknown]
  /\ NoInput

\* validate(path, opts) is called: otherErrors is read, getErrors() is entered
\* and calls props.validate(props.state), whose result it awaits.
validateCalled(path, silent) ==
  LET c == PassCall("props.validate", path, silent,
                    IF Truthy(path) THEN OtherErrors(errors, path) ELSE <<>>,
                    <<>>, <<"props.validate">>)
  IN
  /\ pending = EmptyBag
  /\ last.op \in {"init", "setErrors"}
  /\ pending' = SetToBag({c})
  /\ last' = PassStep("call", c, c.called, <<>>, NoRun, <<>>, "pending", undefined, <<>>)
  /\ UNCHANGED <<uiVars, schema, validateOn, state, errors, inputs, recent>>

\* getErrors() has settled with `got` and validate resumes: a failure
\* propagates, a result is filtered and assigned as in validateWrite.
SettlePass(c, called, r, run, got) ==
  LET new == ValidateResult(c.path, c.other, got.errs)
      out == IF ShouldThrow(c.silent, new) THEN "FormException" ELSE "resolved"
  IN
  /\ pending' = EmptyBag
  /\ IF got.out = "resolved"
     THEN /\ errors' = new
          /\ last' = PassStep("settle", c, called, r, run, got.norm, out,
                              ValidateReturns(out, state), got.errs)
     ELSE /\ errors' = errors
          /\ last' = PassStep("settle", c, called, r, run, got.norm, got.out,
                              undefined, <<>>)
  /\ UNCHANGED <<uiVars, schema, validateOn, state, inputs, recent>>

\* `await props.validate(props.state)` resolves with r.  Without a schema
\* getErrors returns r; with a schema of no known shape it throws; otherwise
\* it calls the normalizer of the detected kind and awaits it.
validatorResolves(c, r) ==
  /\ c.pc = "props.validate"
  /\ IF ~HasSchema(schema)
     THEN SettlePass(c, c.called, r, NoRun, [out |-> "resolved", errs |-> r, norm |-> <<>>])
     ELSE IF SchemaKind(schema) = "unsupported"
     THEN SettlePass(c, c.called, r, NoRun,
                     [out |-> "UnsupportedSchema", errs |-> <<>>, norm |-> <<>>])
     ELSE /\ pending' = SetToBag({PassCall("schema", c.path, c.silent, c.other, r,
                                           Append(c.called, NormalizerOf(SchemaKind(schema))))})
          /\ last' = PassStep("validated", c, c.called, r, NoRun, <<>>, "pending",
                              undefined, <<>>)
          /\ UNCHANGED <<uiVars, schema, validateOn, state, errors, inputs, recent>>

\* The normalizer settles for a run of the schema library: its errors are
\* concatenated to the validator's, or its exception leaves getErrors.
schemaLibrarySettles(c, run) ==
  LET got == SchemaErrors(SchemaKind(schema), run) IN
  /\ c.pc = "schema"
  /\ run \in LibraryRuns(SchemaKind(schema))
  /\ SettlePass(c, c.called, c.errs, run,
                [out |-> got.out, errs |-> Concat(c.errs, got.errs), norm |-> got.errs])

\* Every issue list and run of the model.
AllRuns == UNION { LibraryRuns(k) : k \in {"zod", "yup", "joi", "valibot"} }

NextPass ==
  \/ /\ last.op = "init"
     /\ \E errs \in SetErrorsArgs, path \in CallPaths : setErrors(errs, path)
  \/ \E path \in CallPaths, silent \in BOOLEAN : validateCalled(path, silent)
  \/ \E c \in Calls, r \in ValidatorResults : validatorResolves(c, r)
  \/ \E c \in Calls, run \in AllRuns : schemaLibrarySettles(c, run)

SpecPass == InitPass /\ [][NextPass]_vars

---------------------------------------------------------------------------
\* The form with one call at a time
\*
\* The third specification runs the same operations one asynchronous call at
\* a time, with the empty-string path among the arguments, root-level errors
\* in the lists, and input components registering with the form.

\* Path arguments, the empty string among them.
SeqPaths == {undefined, "", "email"}

\* Issue lists with a root-level issue (path segments []).
SeqIssueLists == { <<>>, <<IssueRoot>>, <<IssueEmail, IssueRoot>> }

\* Error lists for setErrors with a root-level error.
SeqSetErrorsArgs ==
  { <<>>, <<FormError("", "invalid"), FormError("email", "taken")>> }

\* The identifier an input component at a path registers.
InputId(path) == "input-" \o path

\* An input component inside the form stores its identifier under its path
\* in the object the form provides as 'form-inputs'.
registerInput(path) ==
  /\ inputs[path] = undefined
  /\ inputs' = [inputs EXCEPT ![path] = InputId(path)]
  /\ last' = Step("register", "none", path, FALSE, "none", "pending", undefined, <<>>, <<>>)
  /\ UNCHANGED <<uiVars, schema, validateOn, state, errors, pending, recent>>

NextSeq ==
  \/ \E path \in {"email", ""} : registerInput(path)
  \/ /\ pending = EmptyBag
     /\ \E path \in SeqPaths, silent \in BOOLEAN : validate(path, silent)
  \/ \E c \in Calls, why \in {"UnsupportedSchema", "NativeError"} : getErrorsRejects(c, why)
  \/ \E c \in Calls, r \in ValidatorResults, issues \in SeqIssueLists :
       validateWrite(c, r, issues)
  \/ /\ pending = EmptyBag
     /\ \E type \in FormEventTypes, path \in SeqPaths : busEmit(type, path)
  \/ /\ pending = EmptyBag
     /\ onSubmit
  \/ \E c \in Calls : submitEmit(c)
  \/ \E errs \in SeqSetErrorsArgs, path \in SeqPaths : setErrors(errs, path)
  \/ \E path \in SeqPaths : getErrors(path)
  \/ \E path \in SeqPaths : clear(path)

SpecSeq == Init /\ [][NextSeq]_vars

---------------------------------------------------------------------------
\* The input components
\*
\* The fourth specification mounts one input component (Checkbox, Radio,
\* RadioGroup or Textarea), inside a Form or outside any, and runs its DOM
\* event handlers.  A handler's outcome is the sequence of what it emits, in
\* order: the component's own events and the lifecycle events it publishes
\* on the Form's bus, which the Form's listener receives at once.

Components == {"Checkbox", "Radio", "RadioGroup", "Textarea"}

\* The name the mounted input is bound to: the path of its lifecycle events.
InputName == "email"

\* emit(name, ...) of component `by`.
Emit(by, name) == [on |-> "component", by |-> by, type |-> name]

\* emitFormChange / emitFormInput / emitFormBlur of component `by`: the
\* lifecycle event { type, path } for the enclosing Form's bus.
FormEvent(by, type) == [on |-> "bus", by |-> by, type |-> type]

\* const disabled = toRef(props.disabled): with a plain value as its only
\* argument toRef is ref(value), a ref of its own holding the value the prop
\* had at setup; later values of the prop do not reach it.
toRef(atSetup, now) == atSetup

\* inject('form-disabled', ref(false)): the Form's ref, or the default.
InjectFormDisabled(inside, provided) == IF inside THEN provided ELSE FALSE

\* :disabled="disabled || formDisabled" of the native control.  The Radio of
\* a RadioGroup option gets the group's `disabled || formDisabled` as its
\* disabled prop and applies its own template to it.
DomDisabled ==
  IF component = "RadioGroup"
  THEN (inputProps.disabled \/ formDisabled) \/ formDisabled
  ELSE inputProps.disabled \/ formDisabled

\* RadioGroup's onUpdate, the handler of its Radios' 'change'.
onUpdate ==
  << Emit("RadioGroup", "update:modelValue"), Emit("RadioGroup", "change"),
     FormEvent("RadioGroup", "change") >>

\* Bug variant of pick: the Radio publishes 'change' inside a group as well.
pickAlwaysPublishes(radioGroup) ==
  << Emit("Radio", "update:modelValue"), Emit("Radio", "change") >>
    \o (IF radioGroup THEN onUpdate ELSE <<>>)
    \o << FormEvent("Radio", "change") >>

\* The setter of Radio's pick: emit update:modelValue, emit change (inside a
\* RadioGroup its onUpdate runs within that emit), and, without a group,
\* emitFormChange().
pick(radioGroup) ==
  << Emit("Radio", "update:modelValue"), Emit("Radio", "change") >>
    \o (IF radioGroup THEN onUpdate ELSE <<>>)
    \o (IF ~radioGroup THEN << FormEvent("Radio", "change") >> ELSE <<>>)

\* Checkbox: v-model's setter emits update:modelValue, then onChange emits
\* change and calls emitFormChange().
CheckboxOnChange ==
  << Emit("Checkbox", "update:modelValue"), Emit("Checkbox", "change"),
     FormEvent("Checkbox", "change") >>

\* Textarea's updateInput.
updateInput == << Emit("Textarea", "update:modelValue"), FormEvent("Textarea", "input") >>

\* Textarea's onInput: if (!modelModifiers.value.lazy) updateInput(...)
onInput(lazy) == IF ~lazy THEN updateInput ELSE <<>>

\* Bug variant of onChange: the model is updated on every change event.
onChangeAlways(lazy) == updateInput

\* Textarea's onChange: if (modelModifiers.value.lazy) updateInput(...)
onChange(lazy) == IF lazy THEN updateInput ELSE <<>>

\* Textarea's onBlur.
onBlur == << Emit("Textarea", "blur"), FormEvent("Textarea", "blur") >>

\* The handlers of the mounted component, by name.
Handlers ==
  CASE component = "Checkbox"   -> {[op |-> "onChange", evts |-> CheckboxOnChange]}
    [] component = "Radio"      -> {[op |-> "pick", evts |-> pick(FALSE)]}
    [] component = "RadioGroup" -> {[op |-> "pick", evts |-> pick(TRUE)]}
    [] component = "Textarea"   ->
         { [op |-> "onInput",  evts |-> onInput(modelModifiers.lazy)],
           [op |-> "onChange", evts |-> onChange(modelModifiers.lazy)],
           [op |-> "onBlur",   evts |-> onBlur] }
    [] OTHER -> {}

\* What reaches an observer: a lifecycle event is published only when a
\* Form's bus was injected.
RECURSIVE Published(_)
Published(evts) ==
  IF evts = <<>> THEN <<>>
  ELSE (IF Head(evts).on = "bus" /\ ~inForm THEN <<>> ELSE <<Head(evts)>>)
         \o Published(Tail(evts))

\* The calls of validate the Form's listener starts for the lifecycle
\* events of `evts`, added to the suspended calls.
RECURSIVE Listened(_, _)
Listened(evts, bag) ==
  IF evts = <<>> THEN bag
  ELSE Listened(Tail(evts),
         IF Head(evts).on = "bus" /\ ListenerValidates(Head(evts).type, validateOn)
         THEN bag (+) SetToBag({ValidateEntry("validate", InputName, TRUE)})
         ELSE bag)

InitInputs ==
  /\ \E f \in Forms :
       /\ schema = f.schema
       /\ validateOn = f.validateOn
       /\ state = f.state
  /\ errors = <<>>
  /\ inputs = [p \in FieldPaths \cup {""} |-> undefined]
  /\ pending = EmptyBag
  /\ last = NoStep
  /\ recent = [p \in FieldPaths |-> Unknown]
  /\ inForm \in BOOLEAN
  /\ formProps \in [disabled : BOOLEAN]
  /\ inForm \/ ~formProps.disabled
  /\ formDisabled = InjectFormDisabled(inForm, toRef(formProps.disabled, formProps.disabled))
  /\ component \in Components
  /\ inputProps \in [disabled : BOOLEAN]
  /\ modelModifiers \in [lazy : BOOLEAN]
  /\ component = "Textarea" \/ ~modelModifiers.lazy

\* The parent of the Form passes a new value of its disabled prop.
setFormDisabled(b) ==
  /\ inForm
  /\ formProps.disabled # b
  /\ formProps' = [disabled |-> b]
  /\ formDisabled' = InjectFormDisabled(inForm, toRef(formDisabled, b))
  /\ last' = Step("setFormDisabled", "Form", undefined, FALSE, "none", "pending",
                  undefined, <<>>, <<>>)
  /\ UNCHANGED <<schema, validateOn, state, errors, inputs, pending, recent,
                 inForm, component, inputProps, modelModifiers>>

\* The parent of the input passes a new value of its disabled prop.
setInputDisabled(b) ==
  /\ inputProps.disabled # b
  /\ inputProps' = [disabled |-> b]
  /\ last' = Step("setInputDisabled", component, undefined, FALSE, "none", "pending",
                  undefined, <<>>, <<>>)
  /\ UNCHANGED <<schema, validateOn, state, errors, inputs, pending, recent,
                 inForm, formProps, formDisabled, component, modelModifiers>>

\* A DOM event of the native control runs handler h of the component; a
\* disabled control fires none.
domEvent(h) ==
  LET out == Published(h.evts) IN
  /\ ~DomDisabled
  /\ pending' = Listened(out, pending)
  /\ BagCardinality(pending') <= MaxInFlight
  /\ last' = Step(h.op, component, InputName, TRUE, "none", "pending", undefined, out, <<>>)
  /\ UNCHANGED <<uiVars, schema, validateOn, state, errors, inputs, recent>>

NextInputs ==
  \/ \E b \in BOOLEAN : setFormDisabled(b)
  \/ \E b \in BOOLEAN : setInputDisabled(b)
  \/ \E h \in Handlers : domEvent(h)
  \/ \E c \in Calls, why \in {"UnsupportedSchema", "NativeError"} : getErrorsRejects(c, why)
  \/ \E c \in Calls, r \in ValidatorResults, issues \in NativeIssueLists :
       validateWrite(c, r, issues)

SpecInputs == InitInputs /\ [][NextInputs]_vars

---------------------------------------------------------------------------
\* Properties

\* Every path an entry of the collection can carry.
AllPaths == FieldPaths \cup {""}

\* The entries of a list, as a set.
Range(seq) == {seq[i] : i \in 1..Len(seq)}

\* A non-empty path: validateField(p).  No path: validateAll().
FieldWrite == last.op = "write" /\ Truthy(last.path)
AllWrite == last.op = "write" /\ ~Truthy(last.path)

\* C1: when validate(p) with a non-empty path p assigns its result, the
\* entries of every other path q are the ones the collection held right
\* before that assignment, whatever completed while the call was suspended.
C1_FieldValidationLeavesOtherPaths ==
  FieldWrite =>
    \A q \in AllPaths \ {last.path} :
      FilterPathEq(errors, q) = FilterPathEq(last.pre, q)

\* C2: a whole-form validation replaces the collection in one assignment: the
\* step in which the pass completes leaves exactly the list getErrors()
\* resolved with, and every other step of the call (its start, its rejection)
\* leaves the collection as it was.
C2_ValidateAllReplacesAtomically ==
  /\ AllWrite => errors = last.res
  /\ (last.op \in {"validate", "event", "submit", "reject"} /\ ~Truthy(last.path))
       => errors = last.pre

\* C2 witness: a whole-form pass has replaced a non-empty collection by a
\* two-entry result that shares no entry with it.
C2_Witness ==
  /\ AllWrite
  /\ last.pre # <<>>
  /\ Len(errors) = 2
  /\ Range(last.pre) \cap Range(errors) = {}

\* C3: for every path p the entries of p in the collection are the ones
\* produced by the latest validation pass that covered p (setErrors and
\* clear, the permitted external writers, aside).
C3_EntriesAreLatestPassResult ==
  \A p \in FieldPaths :
    recent[p].known => FilterPathEq(errors, p) = recent[p].errs

\* C4: when validate(p) completes, the entries of p in the collection are
\* exactly the entries of p the pass returned, in their order: every prior
\* entry of p is gone.
C4_RevalidatedPathReplaced ==
  FieldWrite => FilterPathEq(errors, last.path) = FilterPathEq(last.res, last.path)

\* C4 witness: validate('email') completed over a collection holding another
\* entry for 'email' and left only the entry of its pass.
C4_Witness ==
  /\ FieldWrite
  /\ FormError("email", "taken") \in Range(last.pre)
  /\ FilterPathEq(errors, "email") = <<FormError("email", "required")>>

\* C5: a non-silent validateAll() throws FormException exactly when the
\* collection its pass assigned is non-empty and otherwise returns
\* props.state; a pass whose only error is {email, required} throws with the
\* collection equal to that entry.
C5_ValidateAllRaisesIffErrors ==
  (AllWrite /\ ~last.silent) =>
    /\ (last.out = "FormException") <=> (errors # <<>>)
    /\ (last.out = "resolved") <=> (errors = <<>>)
    /\ last.out = "resolved" => last.ret = state
    /\ last.res = <<FormError("email", "required")>>
         => last.out = "FormException" /\ errors = <<FormError("email", "required")>>

\* C5 witness: validateAll() threw with the single entry {email, required}.
C5_Witness ==
  /\ AllWrite /\ ~last.silent /\ last.kind = "validate"
  /\ last.out = "FormException"
  /\ errors = <<FormError("email", "required")>>

\* C6 as stated: with 'submit' among the triggers every submit ends having
\* emitted exactly one signal, 'error' if its pass left a non-empty
\* collection and 'submit' if it left an empty one.
C6_EverySubmitEmitsOneSignal ==
  last.op = "emit" =>
    /\ Len(last.emits) = 1
    /\ last.emits[1].type = IF last.res # <<>> THEN "error" ELSE "submit"

\* C6 amended: with 'submit' among the triggers a submit starts one
\* whole-form, non-silent pass and emits nothing until it has settled; if the
\* pass completes, the handler emits exactly one signal, 'error' if the pass
\* left a non-empty collection and 'submit' with props.state if it left an
\* empty one; if the pass fails with another exception (unsupported schema,
\* native exception) the handler rethrows it and emits no signal.
C6_SubmitSignalFollowsPass ==
  /\ (last.op = "submit" /\ "submit" \in validateOn) =>
       /\ last.emits = <<>>
       /\ \E c \in Calls : c = Call("getErrors", "submit", undefined, FALSE, <<>>, <<>>, "pending")
  /\ (last.op = "write" /\ last.kind = "submit") => last.emits = <<>>
  /\ (last.op = "emit" /\ last.out \in {"resolved", "FormException"}) =>
       /\ Len(last.emits) = 1
       /\ last.emits[1].type = IF last.res # <<>> THEN "error" ELSE "submit"
       /\ last.emits[1].type = "submit" => last.emits[1].data = state
  /\ (last.op = "emit" /\ last.out \notin {"resolved", "FormException"}) =>
       last.emits = <<>>

\* C6 witness: a submit whose pass left errors has emitted 'error'.
C6_Witness ==
  /\ last.op = "emit"
  /\ last.res # <<>>
  /\ Len(last.emits) = 1
  /\ last.emits[1].type = "error"

\* C7: without 'submit' among the triggers a submit starts no validation
\* pass, leaves the collection unchanged and emits 'submit' with props.state.
C7_SubmitWithoutTriggerSkipsValidation ==
  (last.op = "submit" /\ "submit" \notin validateOn) =>
    /\ errors = last.pre
    /\ \A c \in Calls : c.kind # "submit"
    /\ last.emits = <<[type |-> "submit", data |-> state, errors |-> <<>>]>>

\* C7 witness: a submit went through over a non-empty collection.
C7_Witness ==
  /\ last.op = "submit"
  /\ "submit" \notin validateOn
  /\ errors # <<>>
  /\ Len(last.emits) = 1

\* C8: a bus event starts a silent validation for its path exactly when its
\* type is blur, input or change and is in props.validateOn; any other event
\* starts none; neither changes the collection in the step.
C8_TriggerSetGovernsEvents ==
  /\ last.op = "event" =>
       /\ last.type \in validateOn \cap {"blur", "input", "change"}
       /\ errors = last.pre
       /\ \E c \in Calls :
            /\ c.pc = "getErrors" /\ c.kind = "validate"
            /\ c.path = last.path /\ c.silent
  /\ last.op = "ignored" =>
       /\ last.type \notin validateOn \cap {"blur", "input", "change"}
       /\ errors = last.pre

\* C8 witness: with the trigger set {submit} an input event was ignored.
C8_Witness ==
  /\ last.op = "ignored"
  /\ last.type = "input"
  /\ validateOn = {"submit"}
  /\ errors # <<>>
  /\ pending = EmptyBag

\* C9: clear() empties the collection; clear(p) removes exactly the entries
\* of path p and keeps the others, in order.
C9_ClearRemovesOnlyPath ==
  last.op = "clear" =>
    errors = IF Truthy(last.path) THEN FilterPathNe(last.pre, last.path) ELSE <<>>

\* C10: setErrors(E, p) keeps every previous entry of another path, drops the
\* previous entries of p and holds the entries of E; setErrors(E) makes the
\* collection E.
C10_SetErrorsReplacesOnlyPath ==
  last.op = "setErrors" =>
    IF Truthy(last.path)
    THEN /\ \A e \in Range(last.pre) : e.path # last.path => e \in Range(errors)
         /\ \A e \in Range(errors) : e.path = last.path => e \in Range(last.res)
         /\ Range(last.res) \subseteq Range(errors)
    ELSE errors = last.res

C12_UnsupportedSchemaPropagates ==
  (schema.present /\ ~isZodSchema(schema) /\ ~isYupSchema(schema)
     /\ ~isJoiSchema(schema) /\ ~isValibotSchema(schema)) =>
    /\ last.op # "write"
    /\ last.op \in {"validate", "submit"} => errors = last.pre
    /\ last.op = "reject" =>
         /\ last.out = "UnsupportedSchema"
         /\ last.ret = undefined
         /\ errors = last.pre
    /\ last.op = "emit" =>
         /\ last.out = "UnsupportedSchema"
         /\ last.type = "rethrow"
         /\ last.emits = <<>>
         /\ errors = last.pre

\* C12 witness: over a non-empty collection a submit with an unsupported
\* schema has ended with the failure rethrown.
C12_Witness ==
  /\ schema = SchemaObject({})
  /\ last.op = "emit"
  /\ last.out = "UnsupportedSchema"
  /\ errors # <<>>

\* C14: a submit whose validation raised FormException ends with exactly one
\* 'error' signal and nothing rethrown; a submit whose validation failed in
\* any other way ends with that failure rethrown and no signal.
C14_FormExceptionRecoveredInSubmit ==
  last.op = "emit" =>
    /\ last.out = "FormException" =>
         /\ last.type = "error"
         /\ Len(last.emits) = 1
         /\ last.emits[1].type = "error"
    /\ last.out \in {"UnsupportedSchema", "NativeError"} =>
         /\ last.type = "rethrow"
         /\ last.emits = <<>>

\* C14 witness: a submit whose validation raised FormException has emitted
\* 'error'.
C14_Witness ==
  /\ last.op = "emit"
  /\ last.out = "FormException"
  /\ last.type = "error"
  /\ Len(last.emits) = 1

\* C20: no step of validate, of the bus listener, of onSubmit, of setErrors,
\* getErrors or clear changes props.state, and a validate that resolves
\* resolves with props.state.
C20_CoreNeverMutatesFormState ==
  [][ /\ state' = state
      /\ (last'.op = "write" /\ last'.out = "resolved") => last'.ret = state ]_vars

\* C20 witness: a validate has resolved with the form's state.
C20_Witness ==
  /\ last.op = "write"
  /\ last.out = "resolved"
  /\ last.ret = "state2"
  /\ state = "state2"

\* C13: the unsupported-schema failure is raised before validate suspends on
\* anything: when it is raised, neither the imperative validator nor a schema
\* library has been called and awaited.
C13_UnsupportedSchemaRaisedBeforeAnyAwait ==
  (last.op = "settle" /\ last.out = "UnsupportedSchema") => last.called = <<>>

\* C15 as stated: detection goes by the presence of the marker fields, first
\* match in the order parse; validate and __isYupSchema__; validateAsync and
\* id; _parse.  Exactly the normalizer of the first match is called, and a
\* schema object with no match is unsupported.
C15_DetectionByPresenceFirstMatch ==
  (schema.present /\ last.op = "settle") =>
    LET has(f) == f \in schema.fields
        kind == IF has("parse") THEN "getZodErrors"
                ELSE IF has("validate") /\ has("__isYupSchema__") THEN "getYupErrors"
                ELSE IF has("validateAsync") /\ has("id") THEN "getJoiErrors"
                ELSE IF has("_parse") THEN "getValibotError"
                ELSE "none"
    IN IF kind = "none"
       THEN last.out = "UnsupportedSchema" /\ last.called = <<"props.validate">>
       ELSE last.out # "UnsupportedSchema" /\ last.called = <<"props.validate", kind>>

\* C15 amended: as stated, where Kind A, C and D go by their marker fields
\* being defined (not undefined) and Kind B by validate and __isYupSchema__
\* both having truthy values.
C15_DetectionFirstMatch ==
  (schema.present /\ last.op = "settle") =>
    LET has(f) == f \in schema.fields
        holds(f) == f \in schema.fields /\ f \notin schema.falsy
        kind == IF has("parse") THEN "getZodErrors"
                ELSE IF holds("validate") /\ holds("__isYupSchema__") THEN "getYupErrors"
                ELSE IF has("validateAsync") /\ has("id") THEN "getJoiErrors"
                ELSE IF has("_parse") THEN "getValibotError"
                ELSE "none"
    IN IF kind = "none"
       THEN last.out = "UnsupportedSchema" /\ last.called = <<"props.validate">>
       ELSE last.out # "UnsupportedSchema" /\ last.called = <<"props.validate", kind>>

\* C15 witness: a schema object with the markers of all four kinds was
\* handled by the zod normalizer alone.
C15_Witness ==
  /\ schema = SchemaObject(SchemaFields)
  /\ last.op = "settle"
  /\ last.called = <<"props.validate", "getZodErrors">>

\* C16: for each of the four kinds the normalizer returns one FormError per
\* native issue, in the issues' order, with the issue's message and with the
\* issue's path segments joined by '.' as path ('' for an issue without
\* segments or without a path); for an accepted state it returns [].
C16_NormalizeMapsEveryIssue ==
  (last.op = "settle" /\ last.run.outcome \in {"accepts", "rejects"}) =>
    LET issues == last.run.issues
        joined(i) == CASE issues[i] = IssueEmail -> "email"
                       [] issues[i] = IssueCity -> "address.city"
                       [] issues[i] = IssueRoot -> ""
                       [] issues[i] = IssueNoPath -> ""
    IN /\ last.run.outcome = "accepts" => last.norm = <<>>
       /\ Len(last.norm) = Len(issues)
       /\ \A i \in 1..Len(issues) :
            /\ last.norm[i].message = issues[i].message
            /\ last.norm[i].path = joined(i)

\* C16 witness: the joi normalizer has mapped a nested and a root-level
\* issue.
C16_Witness ==
  /\ last.op = "settle"
  /\ last.called = <<"props.validate", "getJoiErrors">>
  /\ last.norm = <<FormError("address.city", "too short"), FormError("", "invalid")>>

\* C17: when the schema library throws an exception that is not of the
\* recognised failure shape, validate ends with that exception, returns
\* nothing, no FormError list results from it and the collection is as
\* before.
C17_UnrecognizedExceptionPropagates ==
  (last.op = "settle" /\ last.run.outcome = "throws") =>
    /\ last.out = "NativeError"
    /\ last.ret = undefined
    /\ last.norm = <<>> /\ last.res = <<>>
    /\ errors = last.pre

\* C17 witness: the yup library threw over a non-empty collection.
C17_Witness ==
  /\ last.op = "settle"
  /\ last.run.outcome = "throws"
  /\ last.called = <<"props.validate", "getYupErrors">>
  /\ errors # <<>>

\* C18: in every pass props.validate is called first and the normalizer, if
\* any, after it has resolved; what getErrors resolves with is the
\* validator's errors followed by the normalizer's, before the path filter.
\* A validateAll whose validator returned [{age, must be positive}] and whose
\* schema accepted the state leaves exactly that entry.
C18_ValidatorFirstThenSchema ==
  /\ last.op \in {"call", "validated"} => last.called = <<"props.validate">>
  /\ last.op = "settle" => last.called[1] = "props.validate"
  /\ (last.op = "settle" /\ last.out \in {"resolved", "FormException"}) =>
       /\ last.res = last.r \o last.norm
       /\ (/\ ~Truthy(last.path)
           /\ last.r = <<FormError("age", "must be positive")>>
           /\ last.run.outcome = "accepts")
            => errors = <<FormError("age", "must be positive")>>

\* C18 witness: a validateAll combined an error of the validator with one of
\* the schema.
C18_Witness ==
  /\ last.op = "settle"
  /\ ~Truthy(last.path)
  /\ errors = <<FormError("age", "must be positive"), FormError("email", "required")>>

\* C19: without a schema no normalizer is called and getErrors resolves with
\* the validator's result; when that result is [] (as the default
\* validator's) a validateAll resolves with props.state and leaves the
\* collection empty.
C19_NoSchemaSkipsSchemaValidation ==
  (~schema.present /\ last.op = "settle") =>
    /\ last.called = <<"props.validate">>
    /\ last.out \in {"resolved", "FormException"}
    /\ last.res = last.r
    /\ (last.r = <<>> /\ ~Truthy(last.path)) =>
         /\ last.out = "resolved"
         /\ last.ret = state
         /\ errors = <<>>

\* C19 witness: without schema and with the default validator's result a
\* validateAll has emptied a non-empty collection and resolved.
C19_Witness ==
  /\ ~schema.present
  /\ last.op = "settle"
  /\ ~Truthy(last.path)
  /\ last.pre # <<>>
  /\ errors = <<>>
  /\ last.ret = state

\* C21: a silent validation, as the bus listener starts them, never ends in
\* FormException: when its pass completes it assigns the collection and
\* resolves, whatever the collection then holds.
C21_SilentValidationNeverRaises ==
  (last.op = "write" /\ last.silent) =>
    /\ last.out = "resolved"
    /\ last.ret = state

\* C21 witness: a silent validate('email') resolved although it left errors.
C21_Witness ==
  /\ FieldWrite /\ last.silent
  /\ FilterPathEq(errors, "email") # <<>>
  /\ last.out = "resolved"

\* C24: when two validations that cover the same path p were in flight
\* together and complete one right after the other, the entries of p are
\* then exactly the ones the second to resolve computed, with none left of
\* the first.
C24_LastToResolveWins ==
  [][ (/\ last.op = "write" /\ last'.op = "write"
       /\ Truthy(last.path) /\ last'.path = last.path)
        => SelectSeq(errors', LAMBDA e : e.path = last.path)
             = SelectSeq(last'.res, LAMBDA e : e.path = last.path) ]_vars

\* C24 witness: a validate('email') has completed over a collection that held
\* the 'email' entry of a schema pass, and left no 'email' entry.
C24_Witness ==
  /\ FieldWrite
  /\ FormError("email", "required") \in Range(last.pre)
  /\ FilterPathEq(errors, "email") = <<>>
  /\ pending = EmptyBag

\* C25: an event of a triggering type published while earlier validations
\* are suspended is handled at once: in the very step one more validation is
\* in flight, for the event's path; the earlier ones stay as they are.
C25_EventsNotBlockedByValidation ==
  [][ (/\ last'.op \in {"event", "ignored"}
       /\ last'.type \in validateOn \cap {"blur", "input", "change"})
        => /\ last'.op = "event"
           /\ \E c \in BagToSet(pending') :
                /\ c.pc = "getErrors" /\ c.path = last'.path /\ c.silent
                /\ pending' = pending (+) SetToBag({c}) ]_vars

\* C25 witness: an event was handled with an earlier validation in flight.
C25_Witness ==
  /\ last.op = "event"
  /\ BagCardinality(pending) = 2

\* C26 as stated: the error list of a submit's 'error' signal is the
\* collection the submit's own pass assigned, and so is not empty, whatever
\* completed between the FormException and the emit.
C26_ErrorSignalCarriesOwnPass ==
  (last.op = "emit" /\ last.type = "error") =>
    /\ last.emits[1].errors # <<>>
    /\ [i \in 1..Len(last.emits[1].errors) |->
          FormError(last.emits[1].errors[i].path, last.emits[1].errors[i].message)]
         = last.res

\* C26 amended: the error list of a submit's 'error' signal is the collection
\* as it is when the signal is emitted; the submit's own pass left a
\* non-empty collection, but what completed between the FormException and
\* the emit is reflected in the list.
C26_ErrorSignalCarriesCurrentCollection ==
  (last.op = "emit" /\ last.type = "error") =>
    /\ last.res # <<>>
    /\ Len(last.emits[1].errors) = Len(errors)
    /\ \A i \in 1..Len(errors) :
         /\ last.emits[1].errors[i].path = errors[i].path
         /\ last.emits[1].errors[i].message = errors[i].message

\* C26 witness: an 'error' signal was emitted after the collection had been
\* changed since the submit's pass.
C26_Witness ==
  /\ last.op = "emit" /\ last.type = "error"
  /\ Len(errors) = 2
  /\ errors # last.res

\* C27: a non-silent validate(p) with a non-empty path ends in FormException
\* exactly when the whole collection is non-empty after its assignment.
C27_FieldValidationRaisesOnAnyError ==
  (FieldWrite /\ ~last.silent) =>
    ((last.out = "FormException") <=> (errors # <<>>))

\* C27 witness: validate('email') found no 'email' error and ended in
\* FormException because of an entry of another path.
C27_Witness ==
  /\ FieldWrite /\ ~last.silent
  /\ last.path = "email"
  /\ FilterPathEq(errors, "email") = <<>>
  /\ errors # <<>>
  /\ last.out = "FormException"

\* C23: the 'error' signal carries one entry per error of the collection,
\* path and message unchanged, each with the identifier of the input
\* registered at the error's path (none when no input is registered there);
\* the 'submit' signal carries the form's state.
C23_SignalsCarryIdsAndState ==
  /\ (last.op = "emit" /\ last.type = "error") =>
       /\ Len(last.emits) = 1
       /\ last.emits[1].type = "error"
       /\ Len(last.emits[1].errors) = Len(errors)
       /\ \A i \in 1..Len(errors) :
            /\ last.emits[1].errors[i].path = errors[i].path
            /\ last.emits[1].errors[i].message = errors[i].message
            /\ last.emits[1].errors[i].id =
                 (IF inputs[errors[i].path] = undefined THEN undefined
                  ELSE InputId(errors[i].path))
  /\ (last.op \in {"emit", "submit"} /\ last.type = "submit") =>
       /\ Len(last.emits) = 1
       /\ last.emits[1].type = "submit"
       /\ last.emits[1].data = state

\* C23 witness: an 'error' signal with two entries, one at a path with a
\* registered input and one at a path without.
C23_Witness ==
  /\ last.op = "emit" /\ last.type = "error"
  /\ Len(last.emits[1].errors) = 2
  /\ \E i, j \in 1..2 :
       /\ last.emits[1].errors[i].id = InputId(errors[i].path)
       /\ inputs[errors[j].path] = undefined
       /\ last.emits[1].errors[j].id = undefined

\* C28: the empty-string path acts as no path.  A validate call or a
\* lifecycle event with path '' starts a whole-form pass whose assignment
\* replaces the entire collection by the pass's result; getErrors('')
\* returns all entries; clear('') empties the collection; setErrors(E, '')
\* leaves exactly E.
C28_EmptyPathIsWholeForm ==
  (last.path = "") =>
    /\ (last.op \in {"validate", "event"}) =>
         \E c \in Calls : c.pc = "getErrors" /\ c.path = "" /\ c.other = <<>>
    /\ (last.op = "write") => errors = last.res
    /\ (last.op = "getErrors") => last.res = errors
    /\ (last.op = "clear") => errors = <<>>
    /\ (last.op = "setErrors") => errors = last.res

\* C28 witness: a pass started with path '' replaced a collection that held
\* an 'email' entry by a result without one, and the collection still holds
\* a root-level entry.
C28_Witness ==
  /\ last.op = "write" /\ last.path = ""
  /\ FilterPathEq(last.pre, "email") # <<>>
  /\ FilterPathEq(errors, "email") = <<>>
  /\ FilterPathEq(errors, "") # <<>>

\* C22: at every time the native control of an input is disabled exactly
\* when the input's own disabled prop is true or it is inside a Form whose
\* disabled prop is true now.
C22_DisabledFollowsFormAndOwnProp ==
  DomDisabled <=> (inputProps.disabled \/ (inForm /\ formProps.disabled))

\* The positions of the lifecycle events in a handler's outcome.
BusAt(evts) == {i \in 1..Len(evts) : evts[i].on = "bus"}

\* The positions of e in a handler's outcome.
At(evts, e) == {i \in 1..Len(evts) : evts[i] = e}

\* C29: a radio selection inside a Form publishes exactly one 'change'
\* lifecycle event: the standalone Radio's own, or the RadioGroup's with
\* none of the Radio; every component taking part (the Radio; with a group
\* the RadioGroup too) emits update:modelValue once and then change once,
\* both before the lifecycle event.
C29_OneChangeEventPerSelection ==
  (inForm /\ last.op = "pick") =>
    LET evts == last.emits
        publisher == IF component = "Radio" THEN "Radio" ELSE "RadioGroup"
        emitters == IF component = "Radio" THEN {"Radio"} ELSE {"Radio", "RadioGroup"}
    IN
    /\ Cardinality(BusAt(evts)) = 1
    /\ \A k \in BusAt(evts) : evts[k] = FormEvent(publisher, "change")
    /\ \A by \in emitters :
         /\ Cardinality(At(evts, Emit(by, "update:modelValue"))) = 1
         /\ Cardinality(At(evts, Emit(by, "change"))) = 1
         /\ \A i \in At(evts, Emit(by, "update:modelValue")),
               j \in At(evts, Emit(by, "change")), k \in BusAt(evts) :
              i < j /\ j < k

\* C29 witness: an option of a RadioGroup inside a Form was selected and the
\* Form's listener started a validation for the one event published.
C29_Witness ==
  /\ inForm /\ last.op = "pick"
  /\ component = "RadioGroup"
  /\ Len(last.emits) = 5
  /\ BagCardinality(pending) = 1

\* C30: the Textarea's model updates and lifecycle events are paired.
\* Without the lazy modifier a DOM input event emits one update:modelValue
\* followed (inside a Form) by one 'input' lifecycle event and a DOM change
\* event emits nothing; with the lazy modifier it is the other way round; a
\* blur publishes one 'blur' lifecycle event; no handler publishes 'change'.
C30_TextareaUpdatesPaired ==
  (component = "Textarea" /\ last.kind = "Textarea") =>
    LET evts == last.emits
        lazy == modelModifiers.lazy
        paired == << Emit("Textarea", "update:modelValue") >>
                    \o (IF inForm THEN << FormEvent("Textarea", "input") >> ELSE <<>>)
    IN
    /\ (last.op = "onInput") => evts = (IF lazy THEN <<>> ELSE paired)
    /\ (last.op = "onChange") => evts = (IF lazy THEN paired ELSE <<>>)
    /\ (last.op = "onBlur" /\ inForm) =>
         /\ Cardinality(BusAt(evts)) = 1
         /\ \A k \in BusAt(evts) : evts[k] = FormEvent("Textarea", "blur")
    /\ \A k \in BusAt(evts) : evts[k].type # "change"

\* C30 witness: a DOM change event of a lazy Textarea inside a Form emitted
\* the update and published the 'input' lifecycle event.
C30_Witness ==
  /\ component = "Textarea" /\ last.op = "onChange"
  /\ modelModifiers.lazy /\ inForm
  /\ Len(last.emits) = 2
  /\ BagCardinality(pending) = 1

====
